---- MODULE Spec2Model ----
(***************************************************************************)
(* MLS-MPM substep of src/mlsmpm_materials2.py as a state machine.         *)
(*                                                                         *)
(* Numbers.  TLC has integers only, so every real of the program is kept   *)
(* in fixed point:                                                         *)
(*   - dimensionless reals (entries of F, singular values, Jp, h, J) in    *)
(*     units of dt = 1/inv_dt, so 1.0 is One = inv_dt;                     *)
(*   - the affine matrix C in units of 1/s, so dt*C in units of dt is C;   *)
(*   - velocities in units of 1/VScale;                                    *)
(*   - positions on a lattice of K points per grid cell (x*inv_dx*K);      *)
(*   - B-spline weights exactly, in units of 1/(8*K*K) per axis;           *)
(*   - grid mass in units of p_mass/(64*K^4) and grid momentum in units of *)
(*     p_mass/(64*K^4) times the velocity unit.                            *)
(* Products are divided back with RDiv (round to nearest), the fixed-point *)
(* counterpart of the rounding of the program's floats.                    *)
(***************************************************************************)
EXTENDS Integers, Sequences, FiniteSets, TLC

\* ------------------------------------------------------------ configuration
\* line 6: n_particles, n_grid = 10000, 128, scaled down to what TLC explores
n_particles == 6
n_grid == 8
\* lattice points per grid cell on which particle positions are kept
K == 2
\* number of substeps the driver loop is followed for
MaxSubsteps == 2
\* accesses out of bounds a run is followed through
MaxStrays == 2
\* line 8: dt = 1e-4, kept as its inverse; also the fixed-point unit
inv_dt == 10000
One == inv_dt
\* velocities are kept to 1e-3
VScale == inv_dt \div 10
\* line 9
gravity_0 == 70
\* line 12: E, nu = 0.1e4, 0.2  (nu = nu_num / nu_den)
E == 1000
nu_num == 2
nu_den == 10
\* line 10: p_vol = (dx*0.5)**2 = 1/(4*n_grid^2), p_rho = 1
p_rho == 1
p_vol_den == 4 * n_grid * n_grid
\* line 13: mu_0 = E/(2(1+nu)), lambda_0 = E nu/((1+nu)(1-2nu)), as fractions
mu_0_num == E * nu_den
mu_0_den == 2 * (nu_den + nu_num)
lambda_0_num == E * nu_num * nu_den
lambda_0_den == (nu_den + nu_num) * (nu_den - 2 * nu_num)
\* line 43: the Snow plasticity bounds 1 - 2.5e-2 and 1 + 4.5e-3
SigMin == One - (25 * One) \div 1000
SigMax == One + (45 * One) \div 10000

Particles == 0 .. (n_particles - 1)
Nodes == (0 .. (n_grid - 1)) \X (0 .. (n_grid - 1))
Offsets == (0 .. 2) \X (0 .. 2)

\* ------------------------------------------------------------ arithmetic
Abs(a) == IF a < 0 THEN -a ELSE a
Sign(a) == IF a < 0 THEN -1 ELSE IF a > 0 THEN 1 ELSE 0
Min2(a, b) == IF a < b THEN a ELSE b
Max2(a, b) == IF a > b THEN a ELSE b

\* a/b rounded to the nearest integer (b > 0), halves away from zero
RDiv(a, b) == IF a >= 0 THEN (a + b \div 2) \div b ELSE -(((-a) + b \div 2) \div b)

\* a/b truncated toward zero (b > 0): what a float-to-int cast does
TruncDiv(a, b) == IF a >= 0 THEN a \div b ELSE -((-a) \div b)

\* floor(a/b) (b > 0)
FloorDiv(a, b) == a \div b

RECURSIVE SqrtSearch(_, _, _)
SqrtSearch(n, lo, hi) ==
    IF hi - lo <= 1 THEN lo
    ELSE LET mid == (lo + hi) \div 2
         IN  IF mid * mid <= n THEN SqrtSearch(n, mid, hi) ELSE SqrtSearch(n, lo, mid)

\* floor of the square root of n >= 0
ISqrt(n) == SqrtSearch(n, 0, 46341)

\* the square root of n rounded to the nearest integer
RSqrt(n) == LET r == ISqrt(n) IN IF n - r * r > r THEN r + 1 ELSE r

\* sqrt of a fixed-point value a (a/One): sqrt(a/One)*One = sqrt(a*One)
SqrtFix(a) == RSqrt(a * One)

\* ------------------------------------------------------------ 2x2 matrices
\* a matrix is <<<<m00, m01>>, <<m10, m11>>>>, a vector <<v0, v1>>
Mat(a, b, c, d) == <<<<a, b>>, <<c, d>>>>
Identity == Mat(One, 0, 0, One)
ZeroMat == Mat(0, 0, 0, 0)
Transpose(M) == Mat(M[1][1], M[2][1], M[1][2], M[2][2])
MatAdd(A, B) == Mat(A[1][1] + B[1][1], A[1][2] + B[1][2], A[2][1] + B[2][1], A[2][2] + B[2][2])
MatSub(A, B) == Mat(A[1][1] - B[1][1], A[1][2] - B[1][2], A[2][1] - B[2][1], A[2][2] - B[2][2])
\* the product of two fixed-point matrices, in fixed point
MatMul(A, B) ==
    Mat(RDiv(A[1][1] * B[1][1] + A[1][2] * B[2][1], One),
        RDiv(A[1][1] * B[1][2] + A[1][2] * B[2][2], One),
        RDiv(A[2][1] * B[1][1] + A[2][2] * B[2][1], One),
        RDiv(A[2][1] * B[1][2] + A[2][2] * B[2][2], One))
\* the determinant of a fixed-point matrix, in fixed point
Det(M) == RDiv(M[1][1] * M[2][2] - M[1][2] * M[2][1], One)

\* ------------------------------------------------------------ transfer kernel
\* lines 27, 64: base = (x[p] * inv_dx - 0.5).cast(int), one axis.
\* X is x*inv_dx*K, so x*inv_dx - 0.5 = (2X - K)/(2K); the cast truncates
\* toward zero.
BaseCell(X) == TruncDiv(2 * X - K, 2 * K)

\* lines 28, 65: fx = x[p] * inv_dx - base.cast(float), one axis, times K
FracOffset(X) == X - BaseCell(X) * K

\* lines 30, 66: the quadratic B-spline weights
\*   w = [0.5*(1.5-fx)**2, 0.75-(fx-1)**2, 0.5*(fx-0.5)**2]
\* of one axis, for fx = f/K, in units of 1/(8*K*K); w[i] for i in 0..2
Weights(f, i) ==
    IF i = 0 THEN (3 * K - 2 * f) * (3 * K - 2 * f)
    ELSE IF i = 1 THEN 6 * K * K - 8 * (f - K) * (f - K)
    ELSE (2 * f - K) * (2 * f - K)

\* the unit of a 2D weight w[i][0]*w[j][1]: 1/WUnit
WUnit == 64 * K * K * K * K

\* lines 57, 72: weight = w[i][0] * w[j][1] at position X = <<X0, X1>>
Weight(X, off) == Weights(FracOffset(X[1]), off[1]) * Weights(FracOffset(X[2]), off[2])

\* lines 58, 71: the node base + offset
NodeAt(X, off) == <<BaseCell(X[1]) + off[1], BaseCell(X[2]) + off[2]>>

\* lines 56, 70: offset - fx, times K (dpos of line 70 is this over K, dpos of
\* line 56 is this over K*n_grid)
DPosK(X, off) == <<off[1] * K - FracOffset(X[1]), off[2] * K - FracOffset(X[2])>>

\* lines 54, 69: ti.ndrange(3, 3)
OffsetSeq == <<<<0, 0>>, <<0, 1>>, <<0, 2>>, <<1, 0>>, <<1, 1>>, <<1, 2>>,
               <<2, 0>>, <<2, 1>>, <<2, 2>>>>

\* the nodes a particle at X scatters to and gathers from
Neighbourhood(X) == {NodeAt(X, off) : off \in Offsets}

\* ------------------------------------------------------------ exp and svd
\* ti.exp on a fixed-point argument a: exp(a/16) by its Taylor polynomial of
\* degree 4, then squared four times.  Outside [-3, 2] the result saturates
\* (e^-3 < 0.1 and e^2 > 5, the clamps of line 32).
ExpSmall(y) ==
    One + y + RDiv(y * y, 2 * One)
        + RDiv(RDiv(y * y, One) * y, 6 * One)
        + RDiv(RDiv(RDiv(y * y, One) * y, One) * y, 24 * One)
Square(e) == RDiv(e * e, One)
Exp(a) ==
    LET b == Max2(-3 * One, Min2(2 * One, a))
    IN  Square(Square(Square(Square(ExpSmall(RDiv(b, 16))))))

\* ti.svd of a 2x2 matrix (the execution substrate's SVD, Taichi's svd2d):
\* a polar decomposition A = R P, then a Jacobi rotation diagonalising the
\* symmetric P.  Returns U, the diagonal sig = <<s1, s2>> with s1 >= s2, and
\* V, with A = U diag(sig) V^T and U, V orthogonal.
\* (Each step is an operator of the values computed before it.)
PolarB(A) ==
    IF A[1][1] * A[2][2] - A[2][1] * A[1][2] < 0
    THEN Mat(A[1][1] - A[2][2], A[1][2] + A[2][1], A[2][1] + A[1][2], A[2][2] - A[1][1])
    ELSE Mat(A[1][1] + A[2][2], A[1][2] - A[2][1], A[2][1] - A[1][2], A[2][2] + A[1][1])
PolarScale(B, r) ==
    Mat(RDiv(B[1][1] * One, r), RDiv(B[1][2] * One, r),
        RDiv(B[2][1] * One, r), RDiv(B[2][2] * One, r))
PolarU(B) == PolarScale(B, RSqrt(Abs(B[1][1] * B[2][2] - B[2][1] * B[1][2])))
PolarResult(A, U) == [U |-> U, P |-> MatMul(Transpose(U), A)]
PolarDecompose2d(A) ==
    IF A = ZeroMat THEN [U |-> Identity, P |-> A]
    ELSE PolarResult(A, PolarU(PolarB(A)))

\* the Jacobi rotation (c, s) that diagonalises the symmetric S
JacobiT(S, tao, w) ==
    IF tao > 0 THEN RDiv(S[1][2] * One, tao + w) ELSE -RDiv(S[1][2] * One, w - tao)
JacobiTao(S, tao) == JacobiT(S, tao, RSqrt(tao * tao + S[1][2] * S[1][2]))
JacobiC(t) == RDiv(One * One, RSqrt(t * t + One * One))
JacobiCS(t, c) == <<c, -RDiv(t * c, One)>>
JacobiRot(S) ==
    IF S[1][2] = 0 THEN <<One, 0>>
    ELSE JacobiCS(JacobiTao(S, RDiv(S[1][1] - S[2][2], 2)),
                  JacobiC(JacobiTao(S, RDiv(S[1][1] - S[2][2], 2))))
JacobiS1(S, cc, cs, ss) == RDiv(cc * S[1][1] - 2 * cs * S[1][2] + ss * S[2][2], One)
JacobiS2(S, cc, cs, ss) == RDiv(ss * S[1][1] + 2 * cs * S[1][2] + cc * S[2][2], One)
JacobiSig(S, c, s) ==
    IF S[1][2] = 0 THEN <<S[1][1], S[2][2]>>
    ELSE <<JacobiS1(S, RDiv(c * c, One), RDiv(c * s, One), RDiv(s * s, One)),
           JacobiS2(S, RDiv(c * c, One), RDiv(c * s, One), RDiv(s * s, One))>>
SvdOrdered(R, c, s, s1, s2) ==
    IF s1 < s2
    THEN [U |-> MatMul(R, Mat(-s, c, -c, -s)), sig |-> <<s2, s1>>, V |-> Mat(-s, c, -c, -s)]
    ELSE [U |-> MatMul(R, Mat(c, s, -s, c)), sig |-> <<s1, s2>>, V |-> Mat(c, s, -s, c)]
SvdRotated(R, S, cs) == SvdOrdered(R, cs[1], cs[2], JacobiSig(S, cs[1], cs[2])[1], JacobiSig(S, cs[1], cs[2])[2])
SvdOfPolar(pd) == SvdRotated(pd.U, pd.P, JacobiRot(pd.P))
svd(A) == SvdOfPolar(PolarDecompose2d(A))

\* ------------------------------------------------------------ constitutive model
Fluid == 0
Jelly == 1
Snow == 2

\* Jp is a product of ratios of singular values and never negative; -1 stands
\* for the NaN that 0/0 gives at line 44 when a singular value is 0
NaN == -1

\* Lame parameters and stresses are kept to 1/MuScale
MuScale == VScale \div 100

\* line 32: h = max(0.1, min(5, ti.exp(10 * (1.0 - Jp[p])))); exp of a NaN
\* is a NaN, and min(5, NaN) is the operand that is a number, 5
Hardening(Jp) ==
    IF Jp = NaN THEN 5 * One
    ELSE Max2(One \div 10, Min2(5 * One, Exp(10 * (One - Jp))))

\* fault variants of NewSig: no upper clamp; no clamp at all
NewSigFloor(sig, mat) == IF mat = Snow THEN Max2(sig, SigMin) ELSE sig
NewSigFree(sig, mat) == sig

\* line 43: new_sig = min(max(sig[d, d], 1 - 2.5e-2), 1 + 4.5e-3) for Snow,
\* line 41: new_sig = sig[d, d] otherwise
NewSig(sig, mat) == IF mat = Snow THEN Min2(Max2(sig, SigMin), SigMax) ELSE sig

\* line 44: Jp[p] *= sig[d, d] / new_sig
JpTimes(Jp, sig, new_sig) ==
    IF Jp = NaN \/ new_sig = 0 THEN NaN
    ELSE IF sig = new_sig THEN Jp
    ELSE RDiv(Jp * sig, new_sig)

\* fault variant of Stress: the pressure term is la * J * J
StressBiased(mu, la, Fp, U, V, J) ==
    LET D == MatMul(MatSub(Fp, MatMul(U, Transpose(V))), Transpose(Fp))
        p == RDiv(la * RDiv(J * J, One), One)
    IN  Mat(RDiv(2 * mu * D[1][1], One) + p, RDiv(2 * mu * D[1][2], One),
            RDiv(2 * mu * D[2][1], One), RDiv(2 * mu * D[2][2], One) + p)

\* line 51: stress = 2 * mu * (F - U @ V^T) @ F^T + identity * la * J * (J - 1)
Stress(mu, la, Fp, U, V, J) ==
    LET D == MatMul(MatSub(Fp, MatMul(U, Transpose(V))), Transpose(Fp))
        p == RDiv(la * RDiv(J * (J - One), One), One)
    IN  Mat(RDiv(2 * mu * D[1][1], One) + p, RDiv(2 * mu * D[1][2], One),
            RDiv(2 * mu * D[2][1], One), RDiv(2 * mu * D[2][2], One) + p)

\* lines 52-53, per unit of particle mass:
\*   stress = (-dt * p_vol * 4 * inv_dx * inv_dx) * stress
\*   affine = stress + p_mass * C[p]
\* with p_mass = p_vol * p_rho, so affine / p_mass =
\*   -(4 * n_grid^2 / (inv_dt * p_rho)) * stress + C  (in 1/s, the unit of C)
Affine(stress, Cp) ==
    LET f(a) == -RDiv(4 * n_grid * n_grid * a, inv_dt * p_rho * MuScale)
    IN  Mat(f(stress[1][1]) + Cp[1][1], f(stress[1][2]) + Cp[1][2],
            f(stress[2][1]) + Cp[2][1], f(stress[2][2]) + Cp[2][2])

\* line 31: F[p] = (identity + dt * C[p]) @ F[p]
DeformationUpdate(Fp, Cp) ==
    MatMul(Mat(One + RDiv(Cp[1][1] * One, inv_dt), RDiv(Cp[1][2] * One, inv_dt),
               RDiv(Cp[2][1] * One, inv_dt), One + RDiv(Cp[2][2] * One, inv_dt)), Fp)

\* lines 32-34: the hardening coefficient of the particle, from the Jp it has
\* when P2G reaches it
HardeningOf(Jp, mat) == IF mat = Jelly THEN (3 * One) \div 10 ELSE Hardening(Jp)

\* fault variant of Mu: the liquid keeps its shear modulus
MuKept(h, mat) == RDiv(mu_0_num * h, mu_0_den * (One \div MuScale))

\* lines 35-37: mu, la = mu_0 * h, lambda_0 * h; mu = 0 for the liquid
Mu(h, mat) == IF mat = Fluid THEN 0 ELSE RDiv(mu_0_num * h, mu_0_den * (One \div MuScale))
La(h) == RDiv(lambda_0_num * h, lambda_0_den * (One \div MuScale))

\* lines 47-50: the reset of F
ResetF(F1, U, V, n1, n2, J, mat) ==
    IF mat = Fluid THEN Mat(SqrtFix(J), 0, 0, SqrtFix(J))
    ELSE IF mat = Snow THEN MatMul(MatMul(U, Mat(n1, 0, 0, n2)), Transpose(V))
    ELSE F1

ConstitutiveResult(F2, Jp2, h, mu, la, J, n1, n2, stress, Cp) ==
    [F |-> F2, Jp |-> Jp2, h |-> h, mu |-> mu, la |-> la, J |-> J,
     sig |-> <<n1, n2>>, stress |-> stress, affine |-> Affine(stress, Cp)]

ConstitutiveStress(F2, Jp2, h, mu, la, J, n1, n2, U, V, Cp) ==
    ConstitutiveResult(F2, Jp2, h, mu, la, J, n1, n2, Stress(mu, la, F2, U, V, J), Cp)

\* lines 40-50: the loop over the two singular values, then the reset of F
ConstitutiveClamped(F1, Cp, Jp, h, mat, U, V, s1, s2, n1, n2) ==
    ConstitutiveStress(ResetF(F1, U, V, n1, n2, RDiv(n1 * n2, One), mat),
                       JpTimes(JpTimes(Jp, s1, n1), s2, n2),
                       h, Mu(h, mat), La(h), RDiv(n1 * n2, One), n1, n2, U, V, Cp)

\* fault variant of ConstitutiveSvd: the hardening is taken from the Jp the
\* clamp has updated
ConstitutiveSvdLate(F1, Cp, Jp, h, mat, usv) ==
    ConstitutiveClamped(F1, Cp, Jp,
                        HardeningOf(JpTimes(JpTimes(Jp, usv.sig[1], NewSig(usv.sig[1], mat)),
                                            usv.sig[2], NewSig(usv.sig[2], mat)), mat),
                        mat, usv.U, usv.V, usv.sig[1], usv.sig[2],
                        NewSig(usv.sig[1], mat), NewSig(usv.sig[2], mat))

ConstitutiveSvd(F1, Cp, Jp, h, mat, usv) ==
    ConstitutiveClamped(F1, Cp, Jp, h, mat, usv.U, usv.V, usv.sig[1], usv.sig[2],
                        NewSig(usv.sig[1], mat), NewSig(usv.sig[2], mat))

ConstitutiveF1(F1, Cp, Jp, mat) ==
    ConstitutiveSvd(F1, Cp, Jp, HardeningOf(Jp, mat), mat, svd(F1))

\* lines 31-53 for one particle: the deformation gradient update, the
\* hardening, the svd, the plastic clamp, the reset of F and the stress
Constitutive(Fp, Cp, Jp, mat) == ConstitutiveF1(DeformationUpdate(Fp, Cp), Cp, Jp, mat)

\* ------------------------------------------------------------ state
VARIABLES
    x,          \* line 15: particle position, on the lattice (x*inv_dx*K)
    v,          \* line 16: particle velocity
    C,          \* line 17: affine velocity field
    F,          \* line 18: deformation gradient
    material,   \* line 19: 0 fluid, 1 jelly, 2 snow
    Jp,         \* line 20: plastic deformation
    grid_v,     \* line 21: grid node momentum, then velocity
    grid_m,     \* line 22: grid node mass
    gravity,    \* line 9: the configured gravity
    local,      \* the locals h and stress of the latest P2G of each particle
    pc,         \* the loop of substep() that is running, or "idle" between substeps
    progress,   \* the work items each loop of this substep has finished
    substeps,   \* substeps completed
    strays      \* accesses out of bounds the run has survived

vars == <<x, v, C, F, material, Jp, grid_v, grid_m, gravity, local, pc, progress, substeps, strays>>

NNodes == n_grid * n_grid
\* the k-th work item of a loop over the grid
NodeOf(k) == <<k \div n_grid, k % n_grid>>
InGrid(nd) == nd \in Nodes

\* lines 108-116: the material initialize() gives particle i
MaterialOf(i) ==
    IF 3 * i < 2 * n_particles THEN Fluid
    ELSE IF 6 * i < 5 * n_particles THEN Jelly
    ELSE Snow

NoProgress == [cleared |-> 0, scattered |-> {}, normalised |-> 0, clamped |-> 0, gathered |-> {}]

\* ------------------------------------------------------------ substep()
\* line 125: the driver calls substep()
StartSubstep ==
    /\ pc = "idle"
    /\ substeps < MaxSubsteps
    /\ pc' = "clear"
    /\ progress' = NoProgress
    /\ UNCHANGED <<x, v, C, F, material, Jp, grid_v, grid_m, gravity, local, substeps, strays>>

\* lines 96-98: one work item of the loop that zeroes the grid
ClearNode ==
    /\ pc = "clear"
    /\ progress.cleared < NNodes
    /\ LET nd == NodeOf(progress.cleared)
       IN  /\ grid_v' = [grid_v EXCEPT ![nd] = <<0, 0>>]
           /\ grid_m' = [grid_m EXCEPT ![nd] = 0]
    /\ progress' = [progress EXCEPT !.cleared = @ + 1]
    /\ UNCHANGED <<x, v, C, F, material, Jp, gravity, local, pc, substeps, strays>>

\* fault variant of AtomicAdd: a plain store, the update of another thread is lost
StoreLast(cur, delta) == delta

\* lines 58-59: grid_v[...] += ..., grid_m[...] += ...: an atomic accumulate
AtomicAdd(cur, delta) == cur + delta

\* line 56 and the product of line 58, per unit of particle mass:
\* affine @ dpos in velocity units, dpos = (offset - fx) * dx
AffineDPos(A, dK) ==
    <<RDiv(VScale * (A[1][1] * dK[1] + A[1][2] * dK[2]), K * n_grid),
      RDiv(VScale * (A[2][1] * dK[1] + A[2][2] * dK[2]), K * n_grid)>>

\* lines 58-59, 71: grid_v[base + offset] with base + offset outside the
\* grid is an access out of bounds, which Taichi does not check.  It touches
\* memory outside the two fields ("lost"), or the cell the row-major index
\* i * n_grid + j names when that is inside the field ("alias"), or the
\* process faults.
StrayModes == {"lost", "alias"}
Nowhere == <<-1, -1>>
Linear(nd) == nd[1] * n_grid + nd[2]
Landing(nd, mode) ==
    IF nd \in Nodes THEN nd
    ELSE IF mode = "alias" /\ Linear(nd) >= 0 /\ Linear(nd) < NNodes THEN NodeOf(Linear(nd))
    ELSE Nowhere

\* line 58: weight * (p_mass * v[p] + affine @ dpos), component c, of the k-th offset
Momentum(X, vp, A, k, c) ==
    Weight(X, OffsetSeq[k]) * (vp[c] + AffineDPos(A, DPosK(X, OffsetSeq[k]))[c])

\* the adds of offsets 1..k that land on node nd, applied to cur
RECURSIVE AddMomentum(_, _, _, _, _, _, _, _)
AddMomentum(cur, nd, X, vp, A, mode, c, k) ==
    IF k = 0 THEN cur
    ELSE IF Landing(NodeAt(X, OffsetSeq[k]), mode) = nd
    THEN AtomicAdd(AddMomentum(cur, nd, X, vp, A, mode, c, k - 1), Momentum(X, vp, A, k, c))
    ELSE AddMomentum(cur, nd, X, vp, A, mode, c, k - 1)

RECURSIVE AddMass(_, _, _, _, _)
AddMass(cur, nd, X, mode, k) ==
    IF k = 0 THEN cur
    ELSE IF Landing(NodeAt(X, OffsetSeq[k]), mode) = nd
    THEN AtomicAdd(AddMass(cur, nd, X, mode, k - 1), Weight(X, OffsetSeq[k]))
    ELSE AddMass(cur, nd, X, mode, k - 1)

\* lines 54-59: the grid after particle p has scattered to its 3x3 nodes
\* node nd is one the adds of a particle at X land on
Touched(nd, X, mode) ==
    \/ /\ nd[1] - BaseCell(X[1]) \in 0 .. 2
       /\ nd[2] - BaseCell(X[2]) \in 0 .. 2
    \/ /\ mode = "alias"
       /\ \E off \in Offsets : Landing(NodeAt(X, off), mode) = nd

ScatterV(gv, X, vp, A, mode) ==
    [nd \in Nodes |->
        IF Touched(nd, X, mode)
        THEN <<AddMomentum(gv[nd][1], nd, X, vp, A, mode, 1, 9),
               AddMomentum(gv[nd][2], nd, X, vp, A, mode, 2, 9)>>
        ELSE gv[nd]]

ScatterM(gm, X, mode) ==
    [nd \in Nodes |->
        IF Touched(nd, X, mode) THEN AddMass(gm[nd], nd, X, mode, 9) ELSE gm[nd]]

\* what the work item of particle p writes, r being the result of lines 31-53
P2GWrites(p, r, mode) ==
    /\ F' = [F EXCEPT ![p] = r.F]
    /\ Jp' = [Jp EXCEPT ![p] = r.Jp]
    /\ local' = [local EXCEPT ![p] = [h |-> r.h, stress |-> r.stress]]
    /\ grid_v' = ScatterV(grid_v, x[p], v[p], r.affine, mode)
    /\ grid_m' = ScatterM(grid_m, x[p], mode)

\* lines 26-59: the work item of particle p in P2G, all nodes inside the grid
P2G(p) ==
    /\ pc = "P2G"
    /\ p \notin progress.scattered
    /\ Neighbourhood(x[p]) \subseteq Nodes
    /\ P2GWrites(p, Constitutive(F[p], C[p], Jp[p], material[p]), "lost")
    /\ progress' = [progress EXCEPT !.scattered = @ \cup {p}]
    /\ UNCHANGED <<x, v, C, material, gravity, pc, substeps, strays>>

\* the process has faulted on an access out of bounds
Fault ==
    /\ pc' = "fault"
    /\ UNCHANGED <<x, v, C, F, material, Jp, grid_v, grid_m, gravity, local, progress, substeps, strays>>

\* lines 26-59: the work item of a particle that has a node outside the grid
P2GOutOfGrid(p) ==
    /\ pc = "P2G"
    /\ p \notin progress.scattered
    /\ ~(Neighbourhood(x[p]) \subseteq Nodes)
    /\ \/ Fault
       \/ /\ strays < MaxStrays
          /\ \E mode \in StrayModes :
                P2GWrites(p, Constitutive(F[p], C[p], Jp[p], material[p]), mode)
          /\ progress' = [progress EXCEPT !.scattered = @ \cup {p}]
          /\ strays' = strays + 1
          /\ UNCHANGED <<x, v, C, material, gravity, pc, substeps>>

\* lines 81-83: one node of update_gridv.  A node whose mass is not positive
\* keeps its momentum, which G2P then reads as a velocity: the momentum is
\* counted in p_mass / WUnit, p_mass = p_rho / p_vol_den
GridVelocity(mom, m, g) ==
    IF m > 0
    THEN <<RDiv(mom[1], m), RDiv(mom[2], m) - RDiv(g * VScale, inv_dt)>>
    ELSE <<RDiv(mom[1] * p_rho, WUnit * p_vol_den), RDiv(mom[2] * p_rho, WUnit * p_vol_den)>>

UpdateGridvNode ==
    /\ pc = "update_gridv"
    /\ progress.normalised < NNodes
    /\ LET nd == NodeOf(progress.normalised)
       IN  grid_v' = [grid_v EXCEPT ![nd] = GridVelocity(grid_v[nd], grid_m[nd], gravity)]
    /\ progress' = [progress EXCEPT !.normalised = @ + 1]
    /\ UNCHANGED <<x, v, C, F, material, Jp, grid_m, gravity, local, pc, substeps, strays>>

\* fault variant of BoundaryVelocity: the high walls are two cells thick, not three
BoundaryVelocityThin(i, j, gv) ==
    LET x1 == IF i < 3 /\ gv[1] < 0 THEN 0 ELSE gv[1]
        x2 == IF i > n_grid - 2 /\ x1 > 0 THEN 0 ELSE x1
        y1 == IF j < 3 /\ gv[2] < 0 THEN 0 ELSE gv[2]
        y2 == IF j > n_grid - 2 /\ y1 > 0 THEN 0 ELSE y1
    IN  <<x2, y2>>

\* lines 89-92: one node of enforce_boundary
BoundaryVelocity(i, j, gv) ==
    LET x1 == IF i < 3 /\ gv[1] < 0 THEN 0 ELSE gv[1]
        x2 == IF i > n_grid - 3 /\ x1 > 0 THEN 0 ELSE x1
        y1 == IF j < 3 /\ gv[2] < 0 THEN 0 ELSE gv[2]
        y2 == IF j > n_grid - 3 /\ y1 > 0 THEN 0 ELSE y1
    IN  <<x2, y2>>

EnforceBoundaryNode ==
    /\ pc = "enforce_boundary"
    /\ progress.clamped < NNodes
    /\ LET nd == NodeOf(progress.clamped)
       IN  grid_v' = [grid_v EXCEPT ![nd] = BoundaryVelocity(nd[1], nd[2], grid_v[nd])]
    /\ progress' = [progress EXCEPT !.clamped = @ + 1]
    /\ UNCHANGED <<x, v, C, F, material, Jp, grid_m, gravity, local, pc, substeps, strays>>

RECURSIVE SumTo(_, _)
SumTo(t, k) == IF k = 0 THEN 0 ELSE t[k] + SumTo(t, k - 1)

\* line 71: g_v = grid_v[base + offset]; s is what a read outside the two
\* fields returns
ReadNode(gv, nd, mode, s) ==
    IF nd \in Nodes THEN gv[nd]
    ELSE IF Landing(nd, mode) = Nowhere THEN s
    ELSE gv[Landing(nd, mode)]

\* lines 67-73: v_pic, the weighted sum of the 3x3 node velocities
GatherV(gv, X, mode, s) ==
    LET term(c) == [k \in 1 .. 9 |->
            Weight(X, OffsetSeq[k]) * ReadNode(gv, NodeAt(X, OffsetSeq[k]), mode, s)[c]]
    IN  <<RDiv(SumTo(term(1), 9), WUnit), RDiv(SumTo(term(2), 9), WUnit)>>

\* lines 68-74: C_pic = sum of 4 * inv_dx * weight * g_v.outer_product(dpos),
\* dpos = offset - fx; in 1/s
GatherC(gv, X, mode, s) ==
    LET term(c, d) == [k \in 1 .. 9 |->
            Weight(X, OffsetSeq[k]) * ReadNode(gv, NodeAt(X, OffsetSeq[k]), mode, s)[c]
                * DPosK(X, OffsetSeq[k])[d]]
        entry(c, d) == RDiv(RDiv(SumTo(term(c, d), 9), 16 * K * K * K * K) * n_grid, K * VScale)
    IN  Mat(entry(1, 1), entry(1, 2), entry(2, 1), entry(2, 2))

\* line 76: x[p] += dt * v[p], on the lattice
Advect(X, vp) ==
    <<X[1] + RDiv(vp[1] * n_grid * K, VScale * inv_dt),
      X[2] + RDiv(vp[2] * n_grid * K, VScale * inv_dt)>>

\* lines 67-76: what the work item of particle p writes
G2PWrites(p, v_pic, C_pic) ==
    /\ v' = [v EXCEPT ![p] = v_pic]
    /\ C' = [C EXCEPT ![p] = C_pic]
    /\ x' = [x EXCEPT ![p] = Advect(x[p], v_pic)]

\* lines 63-76: the work item of particle p in G2P, all nodes inside the grid
G2P(p) ==
    /\ pc = "G2P"
    /\ p \notin progress.gathered
    /\ Neighbourhood(x[p]) \subseteq Nodes
    /\ G2PWrites(p, GatherV(grid_v, x[p], "lost", <<0, 0>>), GatherC(grid_v, x[p], "lost", <<0, 0>>))
    /\ progress' = [progress EXCEPT !.gathered = @ \cup {p}]
    /\ UNCHANGED <<F, material, Jp, grid_v, grid_m, gravity, local, pc, substeps, strays>>

\* the values a read outside the two fields is taken to return: zeroed
\* memory, or the bits of another field read as a velocity
StrayReads == {<<0, 0>>, <<One, -One>>}

\* lines 63-76: the work item of a particle that has a node outside the grid
G2POutOfGrid(p) ==
    /\ pc = "G2P"
    /\ p \notin progress.gathered
    /\ ~(Neighbourhood(x[p]) \subseteq Nodes)
    /\ \/ Fault
       \/ /\ strays < MaxStrays
          /\ \E mode \in StrayModes : \E s \in StrayReads :
                G2PWrites(p, GatherV(grid_v, x[p], mode, s), GatherC(grid_v, x[p], mode, s))
          /\ progress' = [progress EXCEPT !.gathered = @ \cup {p}]
          /\ strays' = strays + 1
          /\ UNCHANGED <<F, material, Jp, grid_v, grid_m, gravity, local, pc, substeps>>

\* fault variant of LoopDone: update_gridv starts as soon as one particle has
\* scattered
LoopDoneEarly(stage, pr) ==
    CASE stage = "clear" -> pr.cleared = NNodes
      [] stage = "P2G" -> pr.scattered # {}
      [] stage = "update_gridv" -> pr.normalised = NNodes
      [] stage = "enforce_boundary" -> pr.clamped = NNodes
      [] stage = "G2P" -> pr.gathered = Particles
      [] OTHER -> FALSE

\* lines 95-103: a loop of substep() starts when the loop before it has
\* finished all its work items
LoopDone(stage, pr) ==
    CASE stage = "clear" -> pr.cleared = NNodes
      [] stage = "P2G" -> pr.scattered = Particles
      [] stage = "update_gridv" -> pr.normalised = NNodes
      [] stage = "enforce_boundary" -> pr.clamped = NNodes
      [] stage = "G2P" -> pr.gathered = Particles
      [] OTHER -> FALSE

NextLoop(stage) ==
    CASE stage = "clear" -> "P2G"
      [] stage = "P2G" -> "update_gridv"
      [] stage = "update_gridv" -> "enforce_boundary"
      [] stage = "enforce_boundary" -> "G2P"
      [] OTHER -> "idle"

Barrier ==
    /\ pc # "idle"
    /\ LoopDone(pc, progress)
    /\ pc' = NextLoop(pc)
    /\ substeps' = IF pc = "G2P" THEN substeps + 1 ELSE substeps
    /\ UNCHANGED <<x, v, C, F, material, Jp, grid_v, grid_m, gravity, local, progress, strays>>

Next ==
    \/ StartSubstep
    \/ ClearNode
    \/ \E p \in Particles : P2G(p)
    \/ \E p \in Particles : P2GOutOfGrid(p)
    \/ UpdateGridvNode
    \/ EnforceBoundaryNode
    \/ \E p \in Particles : G2P(p)
    \/ \E p \in Particles : G2POutOfGrid(p)
    \/ Barrier

\* ------------------------------------------------------------ initial states
\* lines 109, 112, 115: x = ti.random() * w + lo on each axis, lo and w in
\* hundredths; ti.random() is any number in [0, 1)
RegionLo(mat) == IF mat = Fluid THEN <<35, 5>> ELSE IF mat = Jelly THEN <<30, 45>> ELSE <<55, 60>>
RegionW(mat) == IF mat = Fluid THEN 30 ELSE 15

\* the lattice points nearest to a coordinate of [lo, lo + w) on axis a
AxisPoints(mat, a) ==
    {X \in 0 .. n_grid * K :
        /\ 100 * (2 * X + 1) >= 2 * RegionLo(mat)[a] * n_grid * K
        /\ 100 * (2 * X - 1) < 2 * (RegionLo(mat)[a] + RegionW(mat)) * n_grid * K}
Region(mat) == AxisPoints(mat, 1) \X AxisPoints(mat, 2)
AxisLo(mat, a) == CHOOSE X \in AxisPoints(mat, a) : \A Y \in AxisPoints(mat, a) : X <= Y
AxisN(mat, a) == Cardinality(AxisPoints(mat, a))

\* the gravity the run is configured with: line 9, or none
GravityConfigs == {0, gravity_0}

ZeroGridV == [nd \in Nodes |-> <<0, 0>>]
ZeroGridM == [nd \in Nodes |-> 0]
NoLocal == [p \in Particles |-> [h |-> 0, stress |-> ZeroMat]]

\* lines 106-121: the state initialize() leaves (fields start zeroed)
Init ==
    /\ x \in [Particles -> (0 .. n_grid * K) \X (0 .. n_grid * K)]
    /\ \A i \in Particles : x[i] \in Region(MaterialOf(i))
    /\ v = [i \in Particles |-> <<0, 0>>]
    /\ C = [i \in Particles |-> ZeroMat]
    /\ F = [i \in Particles |-> Identity]
    /\ Jp = [i \in Particles |-> One]
    /\ material = [i \in Particles |-> MaterialOf(i)]
    /\ grid_v = ZeroGridV
    /\ grid_m = ZeroGridM
    /\ gravity \in GravityConfigs
    /\ local = NoLocal
    /\ pc = "idle"
    /\ progress = NoProgress
    /\ substeps = 0
    /\ strays = 0

Spec == Init /\ [][Next]_vars

\* ------------------------------------------------------------ mid-run states
\* A sample of the states between two substeps of a run, the first substep
\* included.  Scenario 0 is rest (the state initialize() gives a particle), 1
\* a flow, 2 an impact that collapses the jelly along one axis.  The
\* particles are where initialize() can draw them ("start"), or have moved to
\* the low or the high corner of the domain, or onto its lower edges, or
\* beyond the last node row, or one particle rests in the centre while the
\* others move in the low corner.
Profile(mat, k) ==
    IF k = 0 THEN [v |-> <<0, 0>>, C |-> ZeroMat, F |-> Identity, Jp |-> One]
    ELSE IF k = 1 THEN
        IF mat = Fluid
        THEN [v |-> <<3000, 5000>>, C |-> Mat(200, 50, -100, -300),
              F |-> Mat(10200, 0, 0, 10200), Jp |-> One]
        ELSE IF mat = Jelly
        THEN [v |-> <<2000, 8000>>, C |-> Mat(100, 0, 0, -800),
              F |-> Mat(10500, 1000, 0, 9000), Jp |-> One]
        ELSE [v |-> <<5000, 2000>>, C |-> Mat(300, 100, -200, -500),
              F |-> Identity, Jp |-> One]
    ELSE
        IF mat = Fluid
        THEN [v |-> <<1000, 9000>>, C |-> Mat(-1500, 0, 300, -2500),
              F |-> Mat(9800, 0, 0, 9800), Jp |-> One]
        ELSE IF mat = Jelly
        THEN [v |-> <<4000, 6000>>, C |-> Mat(-inv_dt, 0, 0, 0),
              F |-> Identity, Jp |-> One]
        ELSE [v |-> <<2000, 7000>>, C |-> Mat(1000, 0, 0, -2000),
              F |-> Mat(SigMax, 0, 0, SigMin), Jp |-> (95 * One) \div 100]

\* the largest lattice coordinate whose 3x3 neighbourhood is inside the grid
XMax == (2 * K * (n_grid - 2) + K - 1) \div 2
\* the lattice points next to the lower walls, from half a cell in
HalfCell == (K + 1) \div 2
LowCorner(i) == <<HalfCell + (i % 3), HalfCell + ((i \div 3) % 3)>>
\* the lattice points from the lower walls themselves
Edge(i) == <<i % 3, (i \div 3) % 3>>
HighCorner(i) == <<XMax - (i % 3), XMax - ((i \div 3) % 3)>>
\* particle 0 a cell further up: its nodes j = base + 2 are outside the grid
Beyond(i) == IF i = 0 THEN <<XMax - 1, XMax + K>> ELSE HighCorner(i)
\* a sample of the draws of ti.random() in initialize(): particle i takes the
\* (i * s)-th lattice point of its region on each axis
Strides == <<<<0, 0>>, <<1, 2>>, <<2, 1>>, <<3, 1>>>>
Place(i, s) ==
    <<AxisLo(MaterialOf(i), 1) + ((i * s[1]) % AxisN(MaterialOf(i), 1)),
      AxisLo(MaterialOf(i), 2) + ((i * s[2]) % AxisN(MaterialOf(i), 2))>>
Centre == <<(n_grid \div 2) * K, (n_grid \div 2) * K>>

Scenes ==
    [place : {"low"}, c : {0}, k : 0 .. 2, dir : {-1}, g : {gravity_0}]
    \cup [place : {"high"}, c : {0}, k : 0 .. 2, dir : {1}, g : {gravity_0}]
    \cup [place : {"edge"}, c : {0}, k : 0 .. 1, dir : {1}, g : {gravity_0}]
    \cup [place : {"beyond"}, c : {0}, k : 0 .. 1, dir : {1}, g : {gravity_0}]
    \cup [place : {"start"}, c : 1 .. Len(Strides), k : {0}, dir : {1}, g : GravityConfigs]
    \cup [place : {"centre"}, c : {0, n_particles - 2, n_particles - 1}, k : 1 .. 2, dir : {1},
          g : {0}]

SceneProfile(sc, i) ==
    IF sc.place = "centre" /\ i = sc.c THEN Profile(MaterialOf(i), 0)
    ELSE Profile(MaterialOf(i), sc.k)

ScenePosition(sc, i) ==
    IF sc.place = "high" THEN HighCorner(i)
    ELSE IF sc.place = "centre" /\ i = sc.c THEN Centre
    ELSE IF sc.place = "edge" THEN Edge(i)
    ELSE IF sc.place = "beyond" THEN Beyond(i)
    ELSE IF sc.place = "start" THEN Place(i, Strides[sc.c])
    ELSE LowCorner(i)

InitMid ==
    /\ \E sc \in Scenes :
        /\ x = [i \in Particles |-> ScenePosition(sc, i)]
        /\ v = [i \in Particles |->
                   <<sc.dir * SceneProfile(sc, i).v[1], sc.dir * SceneProfile(sc, i).v[2]>>]
        /\ C = [i \in Particles |-> SceneProfile(sc, i).C]
        /\ F = [i \in Particles |-> SceneProfile(sc, i).F]
        /\ Jp = [i \in Particles |-> SceneProfile(sc, i).Jp]
        /\ gravity = sc.g
    /\ material = [i \in Particles |-> MaterialOf(i)]
    /\ grid_v = ZeroGridV
    /\ grid_m = ZeroGridM
    /\ local = NoLocal
    /\ pc = "idle"
    /\ progress = NoProgress
    /\ substeps = 0
    /\ strays = 0

SpecMid == InitMid /\ [][Next]_vars

\* ------------------------------------------------------------ properties
\* the loops of the running substep that have finished
P2GDone == progress.scattered = Particles
BoundaryDone == progress.clamped = NNodes
\* particle p has been through P2G at least once
Scattered(p) == p \in progress.scattered \/ substeps >= 1

\* C1, as the specification states it: once enforce_boundary has finished, a
\* node with i < 3 has no negative x velocity, a node with i >= n_grid - 3 no
\* positive x velocity, and the same for j and the y velocity.
C1_WithinThreeCells ==
    BoundaryDone =>
        \A nd \in Nodes :
            /\ nd[1] < 3 => grid_v[nd][1] >= 0
            /\ nd[1] >= n_grid - 3 => grid_v[nd][1] <= 0
            /\ nd[2] < 3 => grid_v[nd][2] >= 0
            /\ nd[2] >= n_grid - 3 => grid_v[nd][2] <= 0

\* C1, as the code has it: once enforce_boundary has finished, a node with
\* i < 3 has no negative x velocity, a node with i > n_grid - 3 no positive x
\* velocity, and the same for j and the y velocity; the row i = n_grid - 3
\* is left as update_gridv computed it.
C1_BoundaryClamped ==
    BoundaryDone =>
        \A nd \in Nodes :
            /\ nd[1] < 3 => grid_v[nd][1] >= 0
            /\ nd[1] > n_grid - 3 => grid_v[nd][1] <= 0
            /\ nd[2] < 3 => grid_v[nd][2] >= 0
            /\ nd[2] > n_grid - 3 => grid_v[nd][2] <= 0

\* enforce_boundary has finished, it has zeroed the outward x velocity of a
\* node that carries mass next to the high wall, and the row i = n_grid - 3
\* still moves outward
C1_Witness ==
    /\ BoundaryDone
    /\ \E nd \in Nodes :
        /\ nd[1] > n_grid - 3
        /\ grid_m[nd] > 0
        /\ grid_v[nd][1] = 0
        /\ grid_v[nd][2] # 0
    /\ \E nd \in Nodes : nd[1] = n_grid - 3 /\ grid_v[nd][1] > 0

\* every particle's 3x3 neighbourhood lies inside the grid
AllInGrid == \A p \in Particles : Neighbourhood(x[p]) \subseteq Nodes

RECURSIVE SumMass(_, _)
SumMass(gm, k) == IF k = 0 THEN 0 ELSE gm[NodeOf(k - 1)] + SumMass(gm, k - 1)

\* C2: with every particle's 3x3 neighbourhood inside the grid, the grid
\* masses add up to the mass of the particles that have scattered, whatever
\* the order of the scatters: n_particles * p_mass once P2G has finished.
C2_MassConserved ==
    (progress.cleared = NNodes /\ AllInGrid) =>
        /\ SumMass(grid_m, NNodes) = Cardinality(progress.scattered) * WUnit
        /\ P2GDone => SumMass(grid_m, NNodes) = n_particles * WUnit

\* P2G has finished and two particles have added to the same node
C2_Witness ==
    /\ pc = "update_gridv"
    /\ P2GDone
    /\ AllInGrid
    /\ \E p, q \in Particles :
        /\ p # q
        /\ Neighbourhood(x[p]) \cap Neighbourhood(x[q]) # {}
        /\ x[p] # x[q]

\* C4: the loops of a substep run one after the other: no particle scatters
\* before every node is zeroed, no node is normalised before every particle
\* has scattered, no node is clamped before every node is normalised, and no
\* particle gathers before every node is clamped.
C4_StagesOrdered ==
    /\ progress.scattered # {} => progress.cleared = NNodes
    /\ progress.normalised > 0 => P2GDone
    /\ progress.clamped > 0 => progress.normalised = NNodes
    /\ progress.gathered # {} => BoundaryDone
    /\ (pc = "P2G" /\ progress.scattered = {}) => (grid_m = ZeroGridM /\ grid_v = ZeroGridV)
    /\ pc = "clear" => progress.scattered = {}
    /\ pc = "P2G" => progress.normalised = 0
    /\ pc = "update_gridv" => progress.clamped = 0
    /\ pc = "enforce_boundary" => progress.gathered = {}

\* a particle is gathering in the second substep, after all four earlier loops
C4_Witness ==
    /\ pc = "G2P"
    /\ substeps >= 1
    /\ progress.gathered # {}
    /\ progress.gathered # Particles

\* C10, as the specification states it: the base cell of a coordinate is the
\* floor of x * inv_dx - 0.5, and the offset fx from it lies in [0.5, 1.5).
C10_BaseIsFloor ==
    \A p \in Particles : \A a \in 1 .. 2 :
        /\ BaseCell(x[p][a]) = FloorDiv(2 * x[p][a] - K, 2 * K)
        /\ K <= 2 * FracOffset(x[p][a])
        /\ 2 * FracOffset(x[p][a]) < 3 * K

\* the resolution singular values are compared at: rounding of the products
\* U @ sig @ V^T moves them by a few units of 1/One
SigTol == One \div 2000

\* the squares of the singular values of M, the eigenvalues of M^T @ M, lie in
\* [lo^2, hi^2]
SingularValuesWithin(M, lo, hi) ==
    LET G == MatMul(Transpose(M), M)
        l == RDiv(lo * lo, One)
        h == RDiv(hi * hi, One)
    IN  /\ G[1][1] >= l /\ G[2][2] >= l
        /\ (G[1][1] - l) * (G[2][2] - l) >= G[1][2] * G[2][1]
        /\ G[1][1] <= h /\ G[2][2] <= h
        /\ (h - G[1][1]) * (h - G[2][2]) >= G[1][2] * G[2][1]

\* C3: once P2G has processed a Snow particle, both singular values of its F
\* lie in [1 - 2.5e-2, 1 + 4.5e-3].
C3_SnowClamped ==
    \A p \in Particles :
        (material[p] = Snow /\ Scattered(p)) =>
            SingularValuesWithin(F[p], SigMin - SigTol, SigMax + SigTol)

\* a substep has ended in which the clamp cut a singular value of a Snow
\* particle that the update of F had stretched beyond the upper limit: the
\* particle's Jp has grown by sig / new_sig
C3_Witness ==
    /\ pc = "idle"
    /\ substeps >= 1
    /\ \E p \in Particles :
        /\ material[p] = Snow
        /\ Jp[p] > One
        /\ F[p] # Identity

\* the diagonal matrices with one value on the diagonal
Isotropic(M) == M[1][2] = 0 /\ M[2][1] = 0 /\ M[1][1] = M[2][2]

\* C6: once P2G has processed a Fluid particle, its F is a multiple of the
\* identity and the stress it scattered is a multiple of the identity,
\* whatever F and C were.
C6_FluidIsotropic ==
    \A p \in Particles :
        (material[p] = Fluid /\ p \in progress.scattered) =>
            /\ Isotropic(F[p])
            /\ Isotropic(local[p].stress)

\* P2G has processed a Fluid particle whose velocity gradient shears and
\* whose stress is not zero
C6_Witness ==
    /\ pc = "P2G"
    /\ \E p \in progress.scattered :
        /\ material[p] = Fluid
        /\ C[p][1][2] # 0
        /\ C[p][1][2] # C[p][2][1]
        /\ local[p].stress[1][1] # 0

\* the state initialize() gives a particle, and keeps while nothing acts on it
AtRest(p) == v[p] = <<0, 0>> /\ C[p] = ZeroMat /\ F[p] = Identity /\ Jp[p] = One
\* no other particle shares a node with p
Isolated(p) ==
    \A q \in Particles \ {p} : Neighbourhood(x[q]) \cap Neighbourhood(x[p]) = {}
\* no node of p is one that enforce_boundary clamps
Interior(p) ==
    \A nd \in Neighbourhood(x[p]) : \A a \in 1 .. 2 : nd[a] >= 3 /\ nd[a] <= n_grid - 3

\* C5: with gravity 0, no step of a substep changes a particle at rest (zero
\* velocity, zero C, identity F, Jp = 1) that is isolated and away from the
\* walls: its velocity stays zero and its F the identity, for each material.
C5_RestStays_Step ==
    [][\A p \in Particles :
          (gravity = 0 /\ AtRest(p) /\ Isolated(p) /\ Interior(p)) => AtRest(p)']_vars

\* a substep has ended with gravity 0, a particle at rest in the interior,
\* isolated, still at rest, while another particle moves
C5_Witness ==
    /\ gravity = 0
    /\ pc = "idle"
    /\ substeps >= 1
    /\ \E p \in Particles :
        /\ AtRest(p) /\ Isolated(p) /\ Interior(p)
        /\ \E q \in Particles : v[q] # <<0, 0>>

\* C7, as the specification states it: a substep never starts from a state
\* in which the F of a particle is degenerate or its Jp is not a number; the
\* run stops first.
C7_HaltsBeforeSubstep ==
    pc = "clear" => \A p \in Particles : Det(F[p]) > 0 /\ Jp[p] # NaN

\* C8, as the specification states it: det(F) > 0 for every particle, of
\* every material, in every reachable state.
C8_DetPositive ==
    \A p \in Particles : Det(F[p]) > 0

\* C8, as the code has it: the clamp keeps the F of a Snow particle
\* non-degenerate, |det(F)| within [(1 - 2.5e-2)^2, (1 + 4.5e-3)^2]; the F of
\* a Fluid or Jelly particle is not clamped.
C8_SnowNonDegenerate ==
    \A p \in Particles :
        material[p] = Snow =>
            /\ Abs(Det(F[p])) >= RDiv((SigMin - SigTol) * (SigMin - SigTol), One)
            /\ Abs(Det(F[p])) <= RDiv((SigMax + SigTol) * (SigMax + SigTol), One)

\* a substep has ended in which the clamp changed both singular values of a
\* Snow particle while the F of a Jelly particle became singular
C8_Witness ==
    /\ pc = "idle"
    /\ substeps >= 1
    /\ \E p \in Particles :
        /\ material[p] = Snow
        /\ Jp[p] < Profile(Snow, 2).Jp
    /\ \E q \in Particles : material[q] = Jelly /\ Det(F[q]) = 0

\* the step is the P2G work item of particle p
P2GStep(p) == p \notin progress.scattered /\ p \in progress'.scattered

\* C9, as the specification states it: the hardening h that P2G uses for a
\* particle is computed from the Jp that the clamp has updated.
C9_HardeningAfterClamp_Step ==
    [][\A p \in Particles :
          P2GStep(p) => local'[p].h = HardeningOf(Jp'[p], material[p])]_vars

\* C9, as the code has it: the hardening h that P2G uses for a particle is
\* computed from the Jp the particle has when P2G reaches it, before the
\* clamp updates Jp.
C9_HardeningBeforeClamp_Step ==
    [][\A p \in Particles :
          P2GStep(p) => local'[p].h = HardeningOf(Jp[p], material[p])]_vars

\* P2G has processed a Snow particle whose Jp the clamp changed, and the h it
\* used is not the hardening of the updated Jp
C9_Witness ==
    /\ pc = "P2G"
    /\ \E p \in progress.scattered :
        /\ material[p] = Snow
        /\ Jp[p] # NaN
        /\ local[p].h # HardeningOf(Jp[p], Snow)

====
